---- MODULE Spec2Model ----
(***************************************************************************)
(* Manually incremented timers of srsLTE (lib/include/srslte/common/       *)
(* timers.h): the fixed-pool registry `timers` with its per-slot `timer`   *)
(* and id allocator, and the heap-scheduled service `timers2` with its      *)
(* slots (`timer_impl`), owning handles (`unique_timer`) and the priority  *)
(* queue of scheduled events (`timer_run`).                                 *)
(***************************************************************************)
EXTENDS Integers, Sequences, FiniteSets, TLC

(***************************************************************************)
(* Bounds of the model.                                                    *)
(***************************************************************************)
\* uint32_t is modelled as an unsigned integer of Width bits.
Width == 4
\* step_all() of timers2 is taken while cur_time < MaxTime.
MaxTime == 3
\* durations handed to unique_timer::set are 0..MaxDur.
MaxDur == 1
\* timer_list of timers2 grows to at most MaxSlots slots.
MaxSlots == 2
\* running_timers holds at most MaxHeap events.
MaxHeap == 2
\* number of unique_timer objects the caller holds.
NumHandles == 2
\* capacity nof_timers_ the registry `timers` is constructed with.
NofTimers == 2
\* timeouts handed to timers::timer::set are 0..MaxTimeout.
MaxTimeout == 2
\* timers::timer::step is taken while counter < MaxCounter.
MaxCounter == 3
\* the duration handed to unique_timer::set where cur_time is run up to its
\* wrap-around.
WrapDur == 3
\* step_all() of timers2 is called at most MaxTicks times where cur_time is
\* run up to its wrap-around.
MaxTicks == 18

Modulus == 2 ^ Width

(***************************************************************************)
(* A callback is known by where it comes from.  For a timers2 slot:        *)
(* NoCallback is the empty std::function, OwnCallback a callable that was  *)
(* handed to set() through the handle that owns the slot now, OldCallback  *)
(* a callable that was handed to set() through a handle destroyed since,   *)
(* RearmCallback a callable handed to set() through the owning handle that *)
(* calls run() on that handle.                                             *)
(* For a timers slot NoCallback is the NULL timer_callback pointer and     *)
(* OwnCallback any object.                                                 *)
(***************************************************************************)
NoCallback == "none"
OwnCallback == "own"
OldCallback == "old"
RearmCallback == "rearm"

VARIABLES
  \* ---- class timers2 ----
  timer_list,       \* std::vector<timer_impl>; slot id i is timer_list[i + 1]
  running_timers,   \* std::priority_queue<timer_run>, smallest timeout first
  cur_time,         \* uint32_t cur_time
  handles,          \* the unique_timer objects of the caller
  \* ---- class timers ----
  pool_timer_list,  \* std::vector<timer> timer_list; id i is pool_timer_list[i + 1]
  used_timers,      \* std::vector<bool> used_timers
  nof_used_timers,  \* uint32_t nof_used_timers
  \* ---- observation of the run (history, no influence on the program) ----
  fired,            \* callbacks invoked by the last operation, in order
  raised,           \* the last operation was left by an exception
  ticks,            \* number of step_all() calls of timers2 made so far
  ret,              \* what the last get_unique_id() returned
  hist,             \* per timers2 slot: what its handle did since allocation
  phist             \* per timers slot: what was done since the last set

vars == <<timer_list, running_timers, cur_time, handles,
          pool_timer_list, used_timers, nof_used_timers,
          fired, raised, ticks, ret, hist, phist>>

heapVars == <<timer_list, running_timers, cur_time, handles, ticks, hist>>
poolVars == <<pool_timer_list, phist>>
allocVars == <<used_timers, nof_used_timers, ret>>

SlotIds == 0 .. (MaxSlots - 1)
HandleIds == 1 .. NumHandles
PoolIds == 0 .. (NofTimers - 1)

(***************************************************************************)
(* timers2::timer_impl                                                     *)
(***************************************************************************)
timer_impl ==
  [duration |-> 0, timeout |-> 0, running |-> FALSE, active |-> FALSE,
   callback |-> NoCallback]

is_running(t) == t.active /\ t.running /\ t.timeout > 0

is_expired(t) == t.active /\ ~t.running /\ t.timeout > 0

\* set(uint32_t duration_, std::function<void(int)> callback_)
impl_set_cb(t, duration_, callback_) ==
  IF ~t.active THEN t
  ELSE [t EXCEPT !.callback = callback_, !.duration = duration_, !.running = FALSE]

\* set(uint32_t duration_)
impl_set(t, duration_) ==
  IF ~t.active THEN t
  ELSE [t EXCEPT !.duration = duration_, !.running = FALSE]

\* run(): the slot part; the event pushed is timer_run(id, timeout)
impl_run(t, now) ==
  IF ~t.active THEN t
  ELSE [t EXCEPT !.timeout = (now + t.duration) % Modulus, !.running = TRUE]

\* mutant: stop() that leaves the running flag alone
handle_stop_noop(t) == t

\* unique_timer::stop()
handle_stop(t) == [t EXCEPT !.running = FALSE]

\* mutant: clear() that leaves the callback in the slot
impl_clear_keep_callback(t) ==
  [t EXCEPT !.timeout = 0, !.duration = 0, !.running = FALSE, !.active = FALSE]

\* clear()
impl_clear(t) ==
  [t EXCEPT !.timeout = 0, !.duration = 0, !.running = FALSE, !.active = FALSE,
            !.callback = NoCallback]

\* trigger(), called with cur_time = now: calling an empty std::function
\* throws std::bad_function_call, which leaves trigger() before running is
\* cleared; a callback that calls run() on its handle has run() executed on
\* the slot (pushed says that an event was pushed) before running is cleared.
impl_trigger(t, now) ==
  IF is_running(t)
  THEN IF t.callback = NoCallback
       THEN [t |-> t, called |-> FALSE, threw |-> TRUE, pushed |-> FALSE]
       ELSE IF t.callback = RearmCallback
            THEN [t |-> [impl_run(t, now) EXCEPT !.running = FALSE],
                  called |-> TRUE, threw |-> FALSE, pushed |-> TRUE]
            ELSE [t |-> [t EXCEPT !.running = FALSE],
                  called |-> TRUE, threw |-> FALSE, pushed |-> FALSE]
  ELSE [t |-> t, called |-> FALSE, threw |-> FALSE, pushed |-> FALSE]

(***************************************************************************)
(* timers2::timer_run and the priority queue.  operator< orders by         *)
(* timeout alone, so the order in which events of equal timeout leave the  *)
(* queue is not fixed by the code: an event is placed anywhere among the   *)
(* events of its own timeout.                                              *)
(***************************************************************************)
timer_run(timer_id_, timeout_) == [timer_id |-> timer_id_, timeout |-> timeout_]

InsertAt(s, p, e) == SubSeq(s, 1, p - 1) \o <<e>> \o SubSeq(s, p, Len(s))

pq_emplace(q, e) ==
  { InsertAt(q, p, e) : p \in
      { p \in 1 .. (Len(q) + 1) :
          /\ \A k \in 1 .. (p - 1) : q[k].timeout <= e.timeout
          /\ \A k \in p .. Len(q) : q[k].timeout >= e.timeout } }

pq_top(q) == Head(q)

pq_pop(q) == Tail(q)

(***************************************************************************)
(* timers2::step_all, after cur_time++: the loop over the queue.  The      *)
(* outcomes are a set because an event pushed by a callback is placed like *)
(* any other; pop() then removes whatever event is on top.                 *)
(***************************************************************************)
RECURSIVE step_loop(_, _, _, _)
step_loop(tl, q, now, log) ==
  IF q = <<>> \/ ~(now > pq_top(q).timeout)
  THEN {[tl |-> tl, q |-> q, log |-> log, threw |-> FALSE]}
  ELSE LET top == pq_top(q)
           ptr == tl[top.timer_id + 1]
       IN IF ptr.timeout = top.timeout
          THEN LET r == impl_trigger(ptr, now)
                   qs == IF r.pushed
                         THEN pq_emplace(q, timer_run(top.timer_id, r.t.timeout))
                         ELSE {q}
               IN IF r.threw
                  THEN {[tl |-> tl, q |-> q, log |-> log, threw |-> TRUE]}
                  ELSE UNION { step_loop(
                                 [tl EXCEPT ![top.timer_id + 1] = r.t],
                                 pq_pop(q1), now,
                                 IF r.called
                                 THEN Append(log, [id |-> top.timer_id,
                                                   cb |-> ptr.callback])
                                 ELSE log) : q1 \in qs }
          ELSE step_loop(tl, pq_pop(q), now, log)

\* mutant: a scan that never finds an inactive slot
first_inactive_append(tl) == Len(tl)

\* timers2::get_unique_timer: the index the scan stops at
first_inactive(tl) ==
  IF \E i \in 1 .. Len(tl) : ~tl[i].active
  THEN (CHOOSE i \in 1 .. Len(tl) :
          /\ ~tl[i].active
          /\ \A j \in 1 .. (i - 1) : tl[j].active) - 1
  ELSE Len(tl)

(***************************************************************************)
(* timers::timer                                                           *)
(***************************************************************************)
timer ==
  [callback |-> NoCallback, timeout |-> 0, counter |-> 0, running |-> FALSE]

pool_reset(t) == [t EXCEPT !.counter = 0]

pool_set(t, callback_, timeout_) ==
  pool_reset([t EXCEPT !.callback = callback_, !.timeout = timeout_])

pool_is_running(t) == (t.counter < t.timeout) /\ t.running

\* mutant: expiry only once the counter has passed the timeout
pool_is_expired_late(t) == (t.timeout > 0) /\ (t.counter > t.timeout)

pool_is_expired(t) == (t.timeout > 0) /\ (t.counter >= t.timeout)

\* mutant: stop() that also zeroes the counter
pool_stop_and_reset(t) == [t EXCEPT !.running = FALSE, !.counter = 0]

pool_stop(t) == [t EXCEPT !.running = FALSE]

pool_run(t) == [t EXCEPT !.running = TRUE]

\* step(): the slot afterwards, and whether callback->timer_expired(id) ran
pool_step(t) ==
  IF t.running
  THEN LET c == [t EXCEPT !.counter = (t.counter + 1) % Modulus]
       IN IF pool_is_expired(c)
          THEN [t |-> [c EXCEPT !.running = FALSE], called |-> c.callback # NoCallback]
          ELSE [t |-> c, called |-> FALSE]
  ELSE [t |-> t, called |-> FALSE]

(***************************************************************************)
(* timers: the id allocator                                                *)
(***************************************************************************)
\* release_id(i): the bitmap and the count afterwards
release_id(used, nof_used, i) ==
  IF nof_used > 0 /\ i < NofTimers
  THEN [used |-> [used EXCEPT ![i + 1] = FALSE], nof_used |-> nof_used - 1]
  ELSE [used |-> used, nof_used |-> nof_used]

\* mutant: a scan that takes the highest free id
get_unique_id_highest(used, nof_used) ==
  IF nof_used >= NofTimers
  THEN [used |-> used, nof_used |-> nof_used, ret |-> 0, err |-> TRUE]
  ELSE IF \E i \in 1 .. NofTimers : ~used[i]
       THEN LET i == CHOOSE i \in 1 .. NofTimers :
                       ~used[i] /\ \A j \in (i + 1) .. NofTimers : used[j]
            IN [used |-> [used EXCEPT ![i] = TRUE],
                nof_used |-> (nof_used + 1) % Modulus, ret |-> i - 1, err |-> FALSE]
       ELSE [used |-> used, nof_used |-> nof_used, ret |-> 0, err |-> TRUE]

\* get_unique_id(): the bitmap and the count afterwards, the id returned and
\* whether the call ended on one of its two ERROR branches
get_unique_id(used, nof_used) ==
  IF nof_used >= NofTimers
  THEN [used |-> used, nof_used |-> nof_used, ret |-> 0, err |-> TRUE]
  ELSE IF \E i \in 1 .. NofTimers : ~used[i]
       THEN LET i == CHOOSE i \in 1 .. NofTimers :
                       ~used[i] /\ \A j \in 1 .. (i - 1) : used[j]
            IN [used |-> [used EXCEPT ![i] = TRUE],
                nof_used |-> (nof_used + 1) % Modulus, ret |-> i - 1, err |-> FALSE]
       ELSE [used |-> used, nof_used |-> nof_used, ret |-> 0, err |-> TRUE]

(***************************************************************************)
(* History kept per timers2 slot, for stating the properties:              *)
(*   st     "idle"      no run() since the slot was handed out             *)
(*          "armed"     run() was called and not cancelled since           *)
(*          "cancelled" a run that had not fired was cancelled by the      *)
(*                      handle's set() or stop()                           *)
(*          "halted"    stop_all() was called and run() was not since      *)
(*   nfired callbacks invoked for the slot since its last run()            *)
(*   due    T + D of the last run(): the number of step_all() calls made   *)
(*          before it plus the duration the slot had, as a number, not as  *)
(*          a uint32_t                                                     *)
(***************************************************************************)
HistIdle == [st |-> "idle", nfired |-> 0, due |-> 0]

hist_cancel(hs) ==
  IF hs.st = "armed" /\ hs.nfired = 0 THEN [hs EXCEPT !.st = "cancelled"] ELSE hs

hist_halt(hs) == [hs EXCEPT !.st = "halted"]

hist_run(hs, now, duration_) ==
  [st |-> "armed", nfired |-> 0, due |-> now + duration_]

Count(log, i) == Cardinality({k \in 1 .. Len(log) : log[k].id = i})

\* the log names an invocation of a callback of slot i that called run()
Rearmed(log, i) ==
  \E k \in 1 .. Len(log) : log[k].id = i /\ log[k].cb = RearmCallback

(***************************************************************************)
(* History kept per timers slot:                                           *)
(*   ph     "set"  set() was the last operation on the slot                *)
(*          "run"  run() followed that set(), and only step() since        *)
(*          "none" otherwise                                               *)
(*   steps  step() calls on the slot since that run()                      *)
(*   calls  callbacks invoked for the slot since that set()                *)
(* A slot is followed for timeout + 1 steps.                               *)
(***************************************************************************)
PHistNone == [ph |-> "none", steps |-> 0, calls |-> 0]

phist_step(ph, t, called) ==
  IF ph.ph = "run" /\ ph.steps <= t.timeout
  THEN [ph EXCEPT !.steps = @ + 1, !.calls = @ + (IF called THEN 1 ELSE 0)]
  ELSE PHistNone

phist_run(ph) == IF ph.ph = "set" THEN [ph EXCEPT !.ph = "run"] ELSE PHistNone

\* A unique_timer object: live between construction and destruction, parent
\* non-null, timer_id.  moved is history: "from" when the object was last the
\* source of a move, "into" when it was last the destination of one, "no"
\* when it came from get_unique_timer(); a destroyed object keeps it.
DeadHandle == [live |-> FALSE, parent |-> FALSE, timer_id |-> 0, moved |-> "no"]

Owns(h) == handles[h].live /\ handles[h].parent

(***************************************************************************)
(* State after construction of a timers2 and of a timers(NofTimers).       *)
(***************************************************************************)
Init ==
  /\ timer_list = <<>>
  /\ running_timers = <<>>
  /\ cur_time = 0
  /\ handles = [h \in HandleIds |-> DeadHandle]
  /\ pool_timer_list = [i \in 1 .. NofTimers |-> timer]
  /\ used_timers = [i \in 1 .. NofTimers |-> FALSE]
  /\ nof_used_timers = 0
  /\ ret = 0
  /\ fired = <<>>
  /\ raised = FALSE
  /\ ticks = 0
  /\ hist = [i \in SlotIds |-> HistIdle]
  /\ phist = [i \in PoolIds |-> PHistNone]

(***************************************************************************)
(* Operations of timers2 and of its handles.                               *)
(***************************************************************************)
\* unique_timer h = timers2::get_unique_timer()
GetUniqueTimer(h) ==
  /\ ~handles[h].live
  /\ LET i == first_inactive(timer_list)
         tl == IF i = Len(timer_list) THEN Append(timer_list, timer_impl)
                                      ELSE timer_list
     IN /\ i < MaxSlots
        /\ timer_list' = [tl EXCEPT ![i + 1].active = TRUE]
        /\ handles' = [handles EXCEPT ![h] =
                         [live |-> TRUE, parent |-> TRUE, timer_id |-> i,
                          moved |-> "no"]]
        /\ hist' = [hist EXCEPT ![i] = HistIdle]
  /\ fired' = <<>>
  /\ raised' = FALSE
  /\ UNCHANGED <<running_timers, cur_time, ticks, poolVars, allocVars>>

\* h.set(duration_, callback_)
HandleSetCb(h, duration_, callback_) ==
  /\ Owns(h)
  /\ LET i == handles[h].timer_id
     IN /\ timer_list' = [timer_list EXCEPT ![i + 1] = impl_set_cb(@, duration_, callback_)]
        /\ hist' = [hist EXCEPT ![i] = hist_cancel(@)]
  /\ fired' = <<>>
  /\ raised' = FALSE
  /\ UNCHANGED <<running_timers, cur_time, ticks, handles, poolVars, allocVars>>

\* h.set(duration_)
HandleSet(h, duration_) ==
  /\ Owns(h)
  /\ LET i == handles[h].timer_id
     IN /\ timer_list' = [timer_list EXCEPT ![i + 1] = impl_set(@, duration_)]
        /\ hist' = [hist EXCEPT ![i] = hist_cancel(@)]
  /\ fired' = <<>>
  /\ raised' = FALSE
  /\ UNCHANGED <<running_timers, cur_time, ticks, handles, poolVars, allocVars>>

\* h.run()
HandleRun(h) ==
  /\ Owns(h)
  /\ Len(running_timers) < MaxHeap
  /\ LET i == handles[h].timer_id
         t == timer_list[i + 1]
         t2 == impl_run(t, cur_time)
     IN /\ timer_list' = [timer_list EXCEPT ![i + 1] = t2]
        /\ IF t.active
           THEN /\ running_timers' \in pq_emplace(running_timers, timer_run(i, t2.timeout))
                /\ hist' = [hist EXCEPT ![i] = hist_run(@, ticks, t.duration)]
           ELSE UNCHANGED <<running_timers, hist>>
  /\ fired' = <<>>
  /\ raised' = FALSE
  /\ UNCHANGED <<cur_time, ticks, handles, poolVars, allocVars>>

\* h.stop()
HandleStop(h) ==
  /\ Owns(h)
  /\ LET i == handles[h].timer_id
     IN /\ timer_list' = [timer_list EXCEPT ![i + 1] = handle_stop(@)]
        /\ hist' = [hist EXCEPT ![i] = hist_cancel(@)]
  /\ fired' = <<>>
  /\ raised' = FALSE
  /\ UNCHANGED <<running_timers, cur_time, ticks, handles, poolVars, allocVars>>

\* mutant: a move constructor that leaves the source its parent
move_ctor_keep_source(hs, src, dst) ==
  [hs EXCEPT ![dst] = [live |-> TRUE, parent |-> hs[src].parent,
                       timer_id |-> hs[src].timer_id, moved |-> "into"],
             ![src].moved = "from"]

\* unique_timer dst(std::move(src))
move_ctor(hs, src, dst) ==
  [hs EXCEPT ![dst] = [live |-> TRUE, parent |-> hs[src].parent,
                       timer_id |-> hs[src].timer_id, moved |-> "into"],
             ![src].parent = FALSE,
             ![src].moved = "from"]

MoveConstruct(src, dst) ==
  /\ handles[src].live
  /\ ~handles[dst].live
  /\ handles' = move_ctor(handles, src, dst)
  /\ fired' = <<>>
  /\ raised' = FALSE
  /\ UNCHANGED <<timer_list, running_timers, cur_time, ticks, hist,
                 poolVars, allocVars>>

\* dst = std::move(src)
move_assign(hs, src, dst) ==
  IF dst # src
  THEN [hs EXCEPT ![dst].timer_id = hs[src].timer_id,
                  ![dst].parent = hs[src].parent,
                  ![dst].moved = "into",
                  ![src].parent = FALSE,
                  ![src].moved = "from"]
  ELSE hs

MoveAssign(src, dst) ==
  /\ handles[src].live
  /\ handles[dst].live
  /\ handles' = move_assign(handles, src, dst)
  /\ fired' = <<>>
  /\ raised' = FALSE
  /\ UNCHANGED <<timer_list, running_timers, cur_time, ticks, hist,
                 poolVars, allocVars>>

\* ~unique_timer(); a callable the slot still holds afterwards is one that
\* was handed in through the handle now destroyed
retire(t) == IF t.callback = NoCallback THEN t ELSE [t EXCEPT !.callback = OldCallback]

dtor(tl, hd) ==
  IF hd.parent THEN [tl EXCEPT ![hd.timer_id + 1] = retire(impl_clear(@))] ELSE tl

Destroy(h) ==
  /\ handles[h].live
  /\ timer_list' = dtor(timer_list, handles[h])
  /\ handles' = [handles EXCEPT ![h] = [DeadHandle EXCEPT !.moved = handles[h].moved]]
  /\ hist' = IF handles[h].parent
             THEN [hist EXCEPT ![handles[h].timer_id] = HistIdle]
             ELSE hist
  /\ fired' = <<>>
  /\ raised' = FALSE
  /\ UNCHANGED <<running_timers, cur_time, ticks, poolVars, allocVars>>

\* timers2::step_all()
step_all ==
  /\ LET now == (cur_time + 1) % Modulus
     IN \E r \in step_loop(timer_list, running_timers, now, <<>>) :
          /\ cur_time' = now
          /\ timer_list' = r.tl
          /\ running_timers' = r.q
          /\ fired' = r.log
          /\ raised' = r.threw
          /\ hist' = [i \in SlotIds |->
                        IF Rearmed(r.log, i)
                        THEN hist_run(hist[i], ticks + 1, r.tl[i + 1].duration)
                        ELSE [hist[i] EXCEPT !.nfired = @ + Count(r.log, i)]]
  /\ ticks' = ticks + 1
  /\ UNCHANGED <<handles, poolVars, allocVars>>

StepAll ==
  /\ cur_time < MaxTime
  /\ step_all

\* mutant: stop_all() that leaves the queue as it is
stop_all_queue_keep(q) == q

\* timers2::stop_all(): the queue popped until empty, then every slot
stop_all_queue(q) == <<>>

stop_all_slots(tl) == [i \in 1 .. Len(tl) |-> [tl[i] EXCEPT !.running = FALSE]]

StopAll ==
  /\ running_timers' = stop_all_queue(running_timers)
  /\ timer_list' = stop_all_slots(timer_list)
  /\ hist' = [i \in SlotIds |->
                IF i < Len(timer_list) THEN hist_halt(hist[i]) ELSE hist[i]]
  /\ fired' = <<>>
  /\ raised' = FALSE
  /\ UNCHANGED <<cur_time, ticks, handles, poolVars, allocVars>>

NextNoMove ==
  \/ \E h \in HandleIds : GetUniqueTimer(h)
  \/ \E h \in HandleIds, d \in 0 .. MaxDur : HandleSetCb(h, d, OwnCallback)
  \/ \E h \in HandleIds, d \in 0 .. MaxDur : HandleSet(h, d)
  \/ \E h \in HandleIds : HandleRun(h)
  \/ \E h \in HandleIds : HandleStop(h)
  \/ \E h \in HandleIds : Destroy(h)
  \/ StepAll
  \/ StopAll

Next ==
  \/ NextNoMove
  \/ \E src \in HandleIds, dst \in HandleIds : MoveConstruct(src, dst)
  \/ \E src \in HandleIds, dst \in HandleIds : MoveAssign(src, dst)

\* the heap-scheduled service with its handles
Spec == Init /\ [][Next]_vars

\* the same without handle moves
SpecNoMove == Init /\ [][NextNoMove]_vars

\* step_all() called until cur_time has wrapped around
StepAllWrap ==
  /\ ticks < MaxTicks
  /\ step_all

NextOneTimer ==
  \/ GetUniqueTimer(1)
  \/ \E d \in {0, WrapDur}, c \in {OwnCallback, RearmCallback} : HandleSetCb(1, d, c)
  \/ HandleRun(1)
  \/ StepAllWrap

\* one handle, callbacks that may call run(), cur_time run past its wrap-around
SpecOneTimer == Init /\ [][NextOneTimer]_vars

(***************************************************************************)
(* Operations of timers and of its slots, reached through get(i).          *)
(***************************************************************************)
\* get(i)->set(callback_, timeout_)
PoolSet(i, callback_, timeout_) ==
  /\ pool_timer_list' = [pool_timer_list EXCEPT ![i + 1] = pool_set(@, callback_, timeout_)]
  /\ phist' = [phist EXCEPT ![i] = [ph |-> "set", steps |-> 0, calls |-> 0]]
  /\ fired' = <<>>
  /\ raised' = FALSE
  /\ UNCHANGED <<heapVars, allocVars>>

\* get(i)->run()
PoolRun(i) ==
  /\ pool_timer_list' = [pool_timer_list EXCEPT ![i + 1] = pool_run(@)]
  /\ phist' = [phist EXCEPT ![i] = phist_run(@)]
  /\ fired' = <<>>
  /\ raised' = FALSE
  /\ UNCHANGED <<heapVars, allocVars>>

\* get(i)->stop()
PoolStop(i) ==
  /\ pool_timer_list' = [pool_timer_list EXCEPT ![i + 1] = pool_stop(@)]
  /\ phist' = [phist EXCEPT ![i] = PHistNone]
  /\ fired' = <<>>
  /\ raised' = FALSE
  /\ UNCHANGED <<heapVars, allocVars>>

\* get(i)->reset()
PoolReset(i) ==
  /\ pool_timer_list' = [pool_timer_list EXCEPT ![i + 1] = pool_reset(@)]
  /\ phist' = [phist EXCEPT ![i] = PHistNone]
  /\ fired' = <<>>
  /\ raised' = FALSE
  /\ UNCHANGED <<heapVars, allocVars>>

CanStep(i) ==
  pool_timer_list[i + 1].running => pool_timer_list[i + 1].counter < MaxCounter

\* get(i)->step()
PoolStep(i) ==
  /\ CanStep(i)
  /\ LET r == pool_step(pool_timer_list[i + 1])
     IN /\ pool_timer_list' = [pool_timer_list EXCEPT ![i + 1] = r.t]
        /\ phist' = [phist EXCEPT ![i] = phist_step(@, pool_timer_list[i + 1], r.called)]
        /\ fired' = IF r.called
                    THEN <<[id |-> i, cb |-> pool_timer_list[i + 1].callback]>>
                    ELSE <<>>
  /\ raised' = FALSE
  /\ UNCHANGED <<heapVars, allocVars>>

\* timers::step_all(): every slot in id order
RECURSIVE pool_step_log(_, _)
pool_step_log(tl, i) ==
  IF i > Len(tl) THEN <<>>
  ELSE (IF pool_step(tl[i]).called
        THEN <<[id |-> i - 1, cb |-> tl[i].callback]>> ELSE <<>>)
       \o pool_step_log(tl, i + 1)

PoolStepAll ==
  /\ \A i \in PoolIds : CanStep(i)
  /\ pool_timer_list' = [i \in 1 .. NofTimers |-> pool_step(pool_timer_list[i]).t]
  /\ phist' = [i \in PoolIds |->
                 phist_step(phist[i], pool_timer_list[i + 1],
                            pool_step(pool_timer_list[i + 1]).called)]
  /\ fired' = pool_step_log(pool_timer_list, 1)
  /\ raised' = FALSE
  /\ UNCHANGED <<heapVars, allocVars>>

\* timers::stop_all()
PoolStopAll ==
  /\ pool_timer_list' = [i \in 1 .. NofTimers |-> pool_stop(pool_timer_list[i])]
  /\ phist' = [i \in PoolIds |-> PHistNone]
  /\ fired' = <<>>
  /\ raised' = FALSE
  /\ UNCHANGED <<heapVars, allocVars>>

\* timers::run_all()
PoolRunAll ==
  /\ pool_timer_list' = [i \in 1 .. NofTimers |-> pool_run(pool_timer_list[i])]
  /\ phist' = [i \in PoolIds |-> phist_run(phist[i])]
  /\ fired' = <<>>
  /\ raised' = FALSE
  /\ UNCHANGED <<heapVars, allocVars>>

\* timers::reset_all()
PoolResetAll ==
  /\ pool_timer_list' = [i \in 1 .. NofTimers |-> pool_reset(pool_timer_list[i])]
  /\ phist' = [i \in PoolIds |-> PHistNone]
  /\ fired' = <<>>
  /\ raised' = FALSE
  /\ UNCHANGED <<heapVars, allocVars>>

\* timers::release_id(i)
ReleaseId(i) ==
  /\ LET r == release_id(used_timers, nof_used_timers, i)
     IN /\ used_timers' = r.used
        /\ nof_used_timers' = r.nof_used
  /\ fired' = <<>>
  /\ raised' = FALSE
  /\ UNCHANGED <<heapVars, poolVars, ret>>

\* timers::get_unique_id()
GetUniqueId ==
  /\ LET r == get_unique_id(used_timers, nof_used_timers)
     IN /\ used_timers' = r.used
        /\ nof_used_timers' = r.nof_used
        /\ ret' = r.ret
  /\ fired' = <<>>
  /\ raised' = FALSE
  /\ UNCHANGED <<heapVars, poolVars>>

NextPool ==
  \/ \E i \in PoolIds, c \in {NoCallback, OwnCallback}, t \in 0 .. MaxTimeout :
       PoolSet(i, c, t)
  \/ \E i \in PoolIds : PoolRun(i)
  \/ \E i \in PoolIds : PoolStop(i)
  \/ \E i \in PoolIds : PoolReset(i)
  \/ \E i \in PoolIds : PoolStep(i)
  \/ PoolStepAll
  \/ PoolStopAll
  \/ PoolRunAll
  \/ PoolResetAll
  \/ \E i \in 0 .. NofTimers : ReleaseId(i)
  \/ GetUniqueId

\* the fixed-pool registry with its allocator
SpecPool == Init /\ [][NextPool]_vars

(***************************************************************************)
(* Properties of the heap-scheduled service.                               *)
(***************************************************************************)
Slots == 0 .. (Len(timer_list) - 1)

slot(i) == timer_list[i + 1]

\* the slots whose callback a log of invocations names
FiredIds(log) == {log[k].id : k \in 1 .. Len(log)}

\* the events queued for slot i
EventsOf(q, i) == {k \in 1 .. Len(q) : q[k].timer_id = i}

\* C1: a handle on which set(D, cb) and run() were called at cur_time = T has
\* not had its callback invoked while cur_time <= T + D (the next D calls of
\* step_all), and from the step_all that makes cur_time = T + D + 1 on the
\* callback has been invoked exactly once and the timer is not running, as
\* long as run() is not called again.
C1_FiresOnceAfterDuration ==
  \A i \in Slots :
    (hist[i].st = "armed" /\ slot(i).callback # NoCallback) =>
      IF cur_time > hist[i].due
      THEN hist[i].nfired = 1 /\ ~slot(i).running
      ELSE hist[i].nfired = 0

\* a step_all() step
Tick == cur_time' # cur_time

IsSuffix(s, t) == Len(s) <= Len(t) /\ s = SubSeq(t, Len(t) - Len(s) + 1, Len(t))

\* C3: a run that set() or stop() cancelled before it fired never has its
\* callback invoked by a later step_all() while run() is not called again, also
\* past its expiry tick; the cancelling call touches neither the queue nor
\* another slot and invokes nothing; step_all() pops the stale event (none of
\* the slot's events with a timeout below cur_time is left, unless the call
\* was left by an exception) without changing the slot, changes only slots
\* whose callback it invoked, and leaves a suffix of the queue.
C3_CancelledNeverFires ==
  [][ /\ \A i \in 0 .. (Len(timer_list') - 1) :
           hist'[i].st = "cancelled" =>
             /\ i \notin FiredIds(fired')
             /\ hist'[i].nfired = 0
             /\ ~timer_list'[i + 1].running
             /\ hist[i].st = "armed" =>
                  /\ running_timers' = running_timers
                  /\ fired' = <<>>
                  /\ \A j \in Slots \ {i} : timer_list'[j + 1] = timer_list[j + 1]
             /\ (Tick /\ hist[i].st = "cancelled") =>
                  /\ timer_list'[i + 1] = timer_list[i + 1]
                  /\ ~raised' =>
                       \A k \in EventsOf(running_timers', i) :
                         running_timers'[k].timeout >= cur_time'
      /\ Tick =>
           /\ IsSuffix(running_timers', running_timers)
           /\ Len(timer_list') = Len(timer_list)
           /\ \A j \in Slots :
                timer_list'[j + 1] # timer_list[j + 1] => j \in FiredIds(fired')
    ]_vars

\* C3 witness: a run was cancelled by set() or stop(), cur_time is past its
\* expiry tick and step_all() has popped its event (stop_all() was not called
\* since the run, it would have left the slot "halted").
C3_Witness ==
  \E i \in Slots :
    /\ hist[i].st = "cancelled"
    /\ slot(i).active
    /\ cur_time > hist[i].due + 1
    /\ EventsOf(running_timers, i) = {}
    /\ ~raised

\* C4: whatever the number of run() calls on a handle, step_all() invokes the
\* callback of a slot exactly when cur_time comes to exceed the T + D of the
\* last run() and that run was neither cancelled nor has fired: once then, and
\* not at all in any other step_all(), in particular not at the expiry tick of
\* an earlier run().
C4_FiresOnceForLastRun ==
  [][ Tick =>
        \A i \in Slots :
          slot(i).callback # NoCallback =>
            Count(fired', i) =
              IF hist[i].st = "armed" /\ hist[i].nfired = 0 /\ cur_time' > hist[i].due
              THEN 1 ELSE 0
    ]_vars

\* C5: stop_all() invokes no callback, leaves the queue empty and no slot
\* running, and leaves cur_time and every slot's active flag, duration and
\* callback as they were; from then on step_all() invokes the callback of no
\* slot on which run() was not called again.
C5_StopAllSilent ==
  [][ /\ StopAll =>
           /\ fired' = <<>>
           /\ running_timers' = <<>>
           /\ cur_time' = cur_time
           /\ Len(timer_list') = Len(timer_list)
           /\ \A i \in Slots :
                /\ ~timer_list'[i + 1].running
                /\ timer_list'[i + 1].active = slot(i).active
                /\ timer_list'[i + 1].duration = slot(i).duration
                /\ timer_list'[i + 1].callback = slot(i).callback
                /\ hist'[i].st = "halted"
      /\ \A i \in 0 .. (Len(timer_list') - 1) :
           hist'[i].st = "halted" =>
             /\ i \notin FiredIds(fired')
             /\ ~timer_list'[i + 1].running
    ]_vars

\* C5 witness: stop_all() was called after a run() on a slot with a callback,
\* that run never fired, run() was not called since, and step_all() has taken
\* cur_time past the expiry tick of the run.
C5_Witness ==
  \E i \in Slots :
    /\ hist[i].st = "halted"
    /\ hist[i].nfired = 0
    /\ slot(i).active
    /\ slot(i).callback # NoCallback
    /\ slot(i).timeout > 0
    /\ cur_time > hist[i].due + 1

\* the step is the destruction of handle h: nothing else ends a handle's life
Destroyed(h) == handles[h].live /\ ~handles'[h].live

\* C6: destroying a handle that owns its slot leaves the slot as a fresh one
\* (duration 0, timeout 0, not running, not active, no callback) and invokes
\* nothing; and no step_all() ever invokes a callback that was registered
\* through a destroyed handle, whatever is done with the slot afterwards.
C6_DestroyClearsSilently ==
  [][ /\ \A h \in HandleIds :
           (Destroyed(h) /\ handles[h].parent) =>
             /\ timer_list'[handles[h].timer_id + 1] = timer_impl
             /\ fired' = <<>>
      /\ \A k \in 1 .. Len(fired') : fired'[k].cb # OldCallback
    ]_vars

\* C6 witness: a slot whose handle was destroyed while an event of it was
\* queued is owned by a new handle (no run() since it was handed out) that has
\* set a callback, and the old event is still queued.
C6_Witness ==
  \E i \in Slots :
    /\ slot(i).active
    /\ hist[i].st = "idle"
    /\ slot(i).callback = OwnCallback
    /\ EventsOf(running_timers, i) # {}
    /\ \E h \in HandleIds : Owns(h) /\ handles[h].timer_id = i

\* C7: a move from a handle that owns a slot makes the destination own that
\* slot and changes neither slot nor queue; destroying a handle that was the
\* source of a move changes no slot, not the queue nor cur_time, and invokes
\* nothing; destroying a handle that owns a slot, as the destination does,
\* clears that slot.
C7_MoveTransfersOwnership ==
  [][ \A h \in HandleIds :
        /\ (Destroyed(h) /\ handles[h].moved = "from") =>
             /\ timer_list' = timer_list
             /\ running_timers' = running_timers
             /\ cur_time' = cur_time
             /\ fired' = <<>>
        /\ \A dst \in HandleIds \ {h} :
             (/\ handles[h].parent
              /\ handles'[h].moved = "from"
              /\ handles'[dst].moved = "into"
              /\ MoveConstruct(h, dst) \/ MoveAssign(h, dst)) =>
               /\ Owns(dst)'
               /\ handles'[dst].timer_id = handles[h].timer_id
               /\ ~handles'[h].parent
               /\ timer_list' = timer_list
               /\ running_timers' = running_timers
        /\ (Destroyed(h) /\ handles[h].moved = "into" /\ handles[h].parent) =>
             /\ timer_list'[handles[h].timer_id + 1] = timer_impl
             /\ \A j \in Slots \ {handles[h].timer_id} :
                  timer_list'[j + 1] = timer_list[j + 1]
    ]_vars

\* C7 witness: the source of a move was destroyed, the destination owns the
\* slot, and the run pending on the slot has fired in the last step_all(),
\* at its tick.
C7_Witness ==
  \E h \in HandleIds, g \in HandleIds :
    /\ ~handles[h].live
    /\ handles[h].moved = "from"
    /\ Owns(g)
    /\ handles[g].moved = "into"
    /\ slot(handles[g].timer_id).active
    /\ handles[g].timer_id \in FiredIds(fired)
    /\ cur_time = hist[handles[g].timer_id].due + 1

\* C8 (handles never moved): no two live handles have the same id;
\* get_unique_timer() hands out the lowest inactive slot when there is one and
\* does not grow timer_list then, and appends one slot when every slot is
\* active; the slot handed out is active; timer_list never shrinks and grows
\* by at most one slot per operation.
C8_UniqueIdsLowestFree ==
  [][ /\ \A h \in HandleIds, g \in HandleIds :
           (h # g /\ handles'[h].live /\ handles'[g].live) =>
             handles'[h].timer_id # handles'[g].timer_id
      /\ Len(timer_list') >= Len(timer_list)
      /\ Len(timer_list') <= Len(timer_list) + 1
      /\ \A h \in HandleIds :
           GetUniqueTimer(h) =>
             LET i == handles'[h].timer_id
                 free == {j \in Slots : ~slot(j).active}
             IN /\ timer_list'[i + 1].active
                /\ IF free # {}
                   THEN /\ i \in free
                        /\ \A j \in free : i <= j
                        /\ Len(timer_list') = Len(timer_list)
                   ELSE /\ i = Len(timer_list)
                        /\ Len(timer_list') = Len(timer_list) + 1
    ]_vars

\* C8 witness: every handle is live, timer_list is full, and slot 0 was handed
\* out a second time (it is owned, not run since, and an event of its former
\* handle is still queued) while a higher slot is active.
C8_Witness ==
  /\ Len(timer_list) = MaxSlots
  /\ \A h \in HandleIds : Owns(h)
  /\ \A i \in Slots : slot(i).active
  /\ hist[0].st = "idle"
  /\ EventsOf(running_timers, 0) # {}

(***************************************************************************)
(* Properties of the fixed-pool registry.                                  *)
(***************************************************************************)
pslot(i) == pool_timer_list[i + 1]

\* a slot on which set(cb, T) with T > 0 and a callback, and then run(), were
\* called, and which was only stepped since
Followed(i) ==
  /\ phist[i].ph = "run"
  /\ pslot(i).callback # NoCallback
  /\ pslot(i).timeout > 0

\* C2 as claimed: after set(cb, T), T > 0, and run(), a slot stepped exactly
\* T times is still running, not expired and its callback has not been invoked;
\* stepped T + 1 times its callback has been invoked exactly once and it is no
\* longer running.
C2_FiresAtStepTPlus1 ==
  \A i \in PoolIds :
    Followed(i) =>
      /\ phist[i].steps = pslot(i).timeout =>
           /\ pslot(i).running
           /\ ~pool_is_expired(pslot(i))
           /\ phist[i].calls = 0
      /\ phist[i].steps = pslot(i).timeout + 1 =>
           /\ phist[i].calls = 1
           /\ ~pslot(i).running

\* C2 as amended: after set(cb, T), T > 0, and run(), a slot stepped fewer than
\* T times is still running, not expired and its callback has not been invoked;
\* stepped T times, or T + 1 times, its callback has been invoked exactly once
\* and it is no longer running.
C2_FiresAtStepT ==
  \A i \in PoolIds :
    Followed(i) =>
      IF phist[i].steps < pslot(i).timeout
      THEN /\ pslot(i).running
           /\ pool_is_running(pslot(i))
           /\ ~pool_is_expired(pslot(i))
           /\ phist[i].calls = 0
      ELSE /\ phist[i].calls = 1
           /\ ~pslot(i).running
           /\ pool_is_expired(pslot(i))

\* C2 witness: a slot set with timeout MaxTimeout and run has been stepped
\* MaxTimeout times and has fired in the last of these steps.
C2_Witness ==
  \E i \in PoolIds :
    /\ Followed(i)
    /\ pslot(i).timeout = MaxTimeout
    /\ phist[i].steps = MaxTimeout
    /\ phist[i].calls = 1
    /\ i \in FiredIds(fired)

\* the ids marked allocated in the bitmap
Allocated == {i \in PoolIds : used_timers[i + 1]}

\* C9: after any sequence of get_unique_id() and release_id(id) calls, with any
\* id, the used-count is the number of ids marked allocated in the bitmap and
\* lies in 0 .. N.
C9_UsedCountMatchesBitmap ==
  /\ nof_used_timers = Cardinality(Allocated)
  /\ nof_used_timers \in 0 .. NofTimers

\* C10: release_id(id) with id >= N, or with the used-count at 0, or with an
\* id that is not allocated, leaves the bitmap and the used-count as they were.
C10_OverReleaseChangesNothing ==
  [][ \A i \in 0 .. NofTimers :
        (/\ i >= NofTimers \/ nof_used_timers = 0 \/ i \notin Allocated
         /\ ReleaseId(i)) =>
          /\ used_timers' = used_timers
          /\ nof_used_timers' = nof_used_timers
    ]_vars

\* C11: get_unique_id() called when all N ids are allocated returns 0 and
\* leaves the used-count at N and the bitmap as it was.
C11_ExhaustedReturnsSentinel ==
  [][ (Allocated = PoolIds /\ GetUniqueId) =>
        /\ ret' = 0
        /\ used_timers' = used_timers
        /\ nof_used_timers' = NofTimers
    ]_vars

\* the ids not marked allocated in the bitmap
Free == PoolIds \ Allocated

\* C12: whenever at least one id is free, get_unique_id() returns the lowest
\* free id, marks it (and nothing else) allocated and counts it, so the id it
\* returns was not allocated before; and when release_id(i) leaves i as the
\* only free id, the get_unique_id() that follows returns i.
C12_LowestFreeId ==
  [][ /\ (Free # {} /\ GetUniqueId) =>
           /\ ret' \in Free
           /\ \A j \in Free : ret' <= j
           /\ used_timers' = [used_timers EXCEPT ![ret' + 1] = TRUE]
           /\ nof_used_timers' = nof_used_timers + 1
      /\ \A i \in PoolIds :
           (ReleaseId(i) /\ PoolIds \ Allocated' = {i}) =>
             LET r == get_unique_id(used_timers', nof_used_timers')
             IN /\ r.ret = i
                /\ ~r.err
                /\ r.used[i + 1]
    ]_vars

\* C12 witness: the last get_unique_id() returned the highest id, which was the
\* only free one, and every id is allocated and counted.
C12_Witness ==
  /\ ret = NofTimers - 1
  /\ Allocated = PoolIds
  /\ nof_used_timers = NofTimers

\* C13: after set(callback, timeout), called in any state of the slot, the
\* counter is 0 and the slot is not running.
C13_SetLeavesArmed ==
  \A i \in PoolIds :
    phist[i].ph = "set" =>
      /\ pslot(i).counter = 0
      /\ ~pslot(i).running

\* C14: run() and stop(), and run_all() and stop_all(), set the running flag of
\* the slot and leave its counter, timeout and callback and every other slot
\* as they were, and invoke nothing; a step() or step_all() on a slot that is
\* not running leaves the slot as it was, counter included, and does not
\* invoke its callback, so a stopped slot stays as it is until run().
C14_RunStopOnlyToggleRunning ==
  [][ /\ \A i \in PoolIds :
           /\ PoolRun(i) =>
                /\ pool_timer_list' =
                     [pool_timer_list EXCEPT ![i + 1].running = TRUE]
                /\ fired' = <<>>
           /\ PoolStop(i) =>
                /\ pool_timer_list' =
                     [pool_timer_list EXCEPT ![i + 1].running = FALSE]
                /\ fired' = <<>>
           /\ (~pslot(i).running /\ (PoolStep(i) \/ PoolStepAll)) =>
                /\ pool_timer_list'[i + 1] = pslot(i)
                /\ i \notin FiredIds(fired')
      /\ PoolRunAll =>
           /\ pool_timer_list' =
                [k \in 1 .. NofTimers |-> [pool_timer_list[k] EXCEPT !.running = TRUE]]
           /\ fired' = <<>>
      /\ PoolStopAll =>
           /\ pool_timer_list' =
                [k \in 1 .. NofTimers |-> [pool_timer_list[k] EXCEPT !.running = FALSE]]
           /\ fired' = <<>>
    ]_vars

\* C14 witness: a slot with a callback was stopped in the middle of its
\* countdown, and the last operation was a step that invoked the callback of
\* another slot and left this one alone.
C14_Witness ==
  \E i \in PoolIds, j \in PoolIds :
    /\ i # j
    /\ ~pslot(i).running
    /\ pslot(i).callback # NoCallback
    /\ pslot(i).counter > 0
    /\ pslot(i).counter < pslot(i).timeout
    /\ j \in FiredIds(fired)

(***************************************************************************)
(* Further properties of the heap-scheduled service.                       *)
(***************************************************************************)
\* slot i is running without a callback and step_all() is about to reach the
\* event of its run
DueWithoutCallback(i) ==
  /\ is_running(slot(i))
  /\ slot(i).callback = NoCallback
  /\ (cur_time + 1) % Modulus > slot(i).timeout
  /\ \E k \in EventsOf(running_timers, i) :
       running_timers[k].timeout = slot(i).timeout

\* C15: step_all() is never left by an exception, and a step_all() that
\* reaches the expiry of a running timer for which no callback was supplied
\* clears the running state of that timer.
C15_NoCallbackExpiryNotFatal ==
  [][ Tick =>
        /\ ~raised'
        /\ \A i \in Slots : DueWithoutCallback(i) => ~timer_list'[i + 1].running
    ]_vars

\* C16: when step_all() has invoked a callback that called run() on its own
\* handle, the timer is running with timeout = cur_time + duration.
C16_RearmInCallback ==
  \A i \in Slots :
    Rearmed(fired, i) =>
      /\ slot(i).running
      /\ slot(i).timeout = (cur_time + slot(i).duration) % Modulus

\* the live handles that own slot i
Owners(i) == {h \in HandleIds : Owns(h) /\ handles[h].timer_id = i}

\* C17: a slot is active if and only if exactly one live handle owns it.
C17_ActiveIffOneOwner ==
  \A i \in Slots : slot(i).active <=> Cardinality(Owners(i)) = 1

\* C18: after every operation each slot whose running flag is set has an event
\* in the queue with its id and its current timeout, and after a step_all()
\* that returned every event left in the queue has a timeout >= cur_time.
C18_RunningHasPendingEvent ==
  [][ /\ \A i \in 0 .. (Len(timer_list') - 1) :
           timer_list'[i + 1].running =>
             \E k \in EventsOf(running_timers', i) :
               running_timers'[k].timeout = timer_list'[i + 1].timeout
      /\ (Tick /\ ~raised') =>
           \A k \in 1 .. Len(running_timers') :
             running_timers'[k].timeout >= cur_time'
    ]_vars

\* C19: is_expired() is true of a slot only if the callback was invoked for
\* the last run() of its handle; it is false after a run that was cancelled
\* before firing and for a handle that was never run.
C19_ExpiredOnlyAfterFiring ==
  \A i \in Slots : is_expired(slot(i)) => hist[i].nfired >= 1

\* C20: a callback is invoked for a run() made after T calls of step_all()
\* with duration D only once more than T + D calls of step_all() have been
\* made, whatever cur_time and the timeout are as fixed-width numbers; and
\* cur_time is changed by step_all() only, to cur_time + 1 modulo 2^Width.
C20_NeverFiresEarly ==
  [][ /\ \A i \in Slots :
           (i \in FiredIds(fired') /\ hist[i].st = "armed") =>
             ticks' > hist[i].due
      /\ cur_time' # cur_time =>
           /\ ticks' = ticks + 1
           /\ cur_time' = (cur_time + 1) % Modulus
    ]_vars

====
